---- MODULE Spec2Model ----
(***************************************************************************)
(* Model of On-Demand_systempull.py: one synchronization pass (main) pulls *)
(* "system" records from the CxAlloy API and reconciles them, record by    *)
(* record, against the main table of a SQL Server database, archiving      *)
(* superseded rows in a history table and writing an audit CSV.            *)
(*                                                                         *)
(* The database is seen twice: main_table/history_table are the committed  *)
(* tables, conn is what the open pyodbc connection sees (the committed     *)
(* rows plus the writes of its open transaction).  pyodbc connections are  *)
(* opened with autocommit off, so a write becomes durable only at          *)
(* connection.commit().                                                    *)
(***************************************************************************)
EXTENDS Integers, Sequences, FiniteSets, TLC

(***************************************************************************)
(* Bounds of the model.                                                    *)
(***************************************************************************)
MaxBatch == 2       \* records returned by one fetch
MaxRuns == 2        \* executions of main
MaxRecords == 2     \* records the upstream yields over all runs, repeats of a fetch apart
MaxFails == 1       \* store operations that raise over all runs

(***************************************************************************)
(* Values.  Python's None, and strings.  Datetimes are strings "dayN";     *)
(* isoformat() is what turns them into the text written to the audit file. *)
(***************************************************************************)
None == "<None>"

Now(n) == "day" \o ToString(n)

isoformat(d) == d \o "T00:00:00"

\* str(v) if v is not None else ""        (str of a str is that str)
StrOrEmpty(v) == IF v = None THEN "" ELSE v

\* v.isoformat() if v else ""
IsoOrEmpty(v) == IF v = None THEN "" ELSE isoformat(v)

(***************************************************************************)
(* Columns.                                                                *)
(***************************************************************************)
Comparable == <<"project_id", "name", "description", "building_id", "building",
                "discipline_id", "discipline", "checklist_id", "checklist_name">>

Range(s) == {s[i] : i \in DOMAIN s}

ComparableSet == Range(Comparable)

Tracked == ComparableSet \cup {"timeUpdated", "handover_date"}

Columns == {"system_id"} \cup Tracked

OldCol(key) == "old_" \o key

NewCol(key) == "new_" \o key

CSV_COLUMNS ==
    <<"timestamp", "action", "system_id",
      "old_project_id", "new_project_id",
      "old_name", "new_name",
      "old_description", "new_description",
      "old_building_id", "new_building_id",
      "old_building", "new_building",
      "old_discipline_id", "new_discipline_id",
      "old_discipline", "new_discipline",
      "old_timeUpdated", "new_timeUpdated",
      "old_checklist_id", "new_checklist_id",
      "old_checklist_name", "new_checklist_name",
      "old_handover_date", "new_handover_date">>

CsvColumnSet == Range(CSV_COLUMNS)

DiffColumns == CsvColumnSet \ {"timestamp", "action", "system_id"}

(***************************************************************************)
(* The canonical records a fetch can return.  Equipment is what            *)
(* process_equipment_data builds for one raw record: timeUpdated is the    *)
(* fetch time, checklist_id and handover_date are None unless the raw      *)
(* record carries them.  The upstream holds two systems, S1 and S2, and    *)
(* one record without identifier.  S1 is also seen with a handover date,   *)
(* and with a handover date, another name and no checklist name.           *)
(***************************************************************************)
Equipment(system_id, handover_date, now) ==
    [system_id |-> system_id, project_id |-> "P1", name |-> "A",
     description |-> None, building_id |-> "7", building |-> "B1",
     discipline_id |-> "3", discipline |-> "Mech", timeUpdated |-> now,
     checklist_id |-> None, checklist_name |-> "CL", handover_date |-> handover_date]

Handover == "day9"

Records(now) ==
    {Equipment(None, None, now), Equipment("S1", None, now),
     Equipment("S2", None, now), Equipment("S1", Handover, now),
     [Equipment("S1", Handover, now) EXCEPT !.name = "A2", !.checklist_name = None]}

RECURSIVE SeqsUpTo(_, _)
SeqsUpTo(S, n) ==
    IF n = 0 THEN {<<>>}
    ELSE LET shorter == SeqsUpTo(S, n - 1)
         IN shorter \cup {Append(s, x) : s \in {t \in shorter : Len(t) = n - 1}, x \in S}

Batches(now) == SeqsUpTo(Records(now), MaxBatch) \ {<<>>}

(***************************************************************************)
(* Store operations of upsert_data.                                        *)
(***************************************************************************)
\* SELECT ... FROM main WHERE system_id = ? : the rows it returns
Matching(main, system_id) == {i \in DOMAIN main : main[i].system_id = system_id}

\* cursor.fetchone(): the first row of the result, when there is one
fetchone(main, system_id) ==
    LET hits == Matching(main, system_id)
    IN main[CHOOSE i \in hits : \A j \in hits : i <= j]

\* INSERT INTO main (12 columns) VALUES (record)
InsertMain(main, record) == Append(main, record)

\* the history insert preceded by a delete of the system's older snapshots
InsertHistory_LatestOnly(hist, existing_record, now) ==
    SelectSeq(hist, LAMBDA row : row.system_id # existing_record.system_id)
    \o <<[c \in Columns \cup {"archived_at"} |->
            IF c = "archived_at" THEN now ELSE existing_record[c]]>>

\* INSERT INTO history (12 columns) VALUES (existing_record); archived_at
\* takes its default, GETDATE()
InsertHistory(hist, existing_record, now) ==
    Append(hist, [c \in Columns \cup {"archived_at"} |->
                    IF c = "archived_at" THEN now ELSE existing_record[c]])

\* the UPDATE without handover_date in its SET list
UpdateMain_KeepsHandover(main, system_id, record) ==
    [i \in DOMAIN main |->
        IF main[i].system_id = system_id
        THEN [record EXCEPT !.system_id = main[i].system_id,
                            !.handover_date = main[i].handover_date]
        ELSE main[i]]

\* the UPDATE matching no row
UpdateMain_NoRow(main, system_id, record) == main

\* UPDATE main SET (11 columns) = record WHERE system_id = ?
UpdateMain(main, system_id, record) ==
    [i \in DOMAIN main |->
        IF main[i].system_id = system_id
        THEN [record EXCEPT !.system_id = main[i].system_id]
        ELSE main[i]]

(***************************************************************************)
(* Decision logic of upsert_data.                                          *)
(***************************************************************************)
\* record_changed with timeUpdated among the compared keys
RecordChanged_WithTimeUpdated(record, existing_record) ==
    \E key \in ComparableSet \cup {"timeUpdated"} : record[key] # existing_record[key]

\* record_changed with handover_date among the compared keys
RecordChanged_WithHandover(record, existing_record) ==
    \E key \in ComparableSet \cup {"handover_date"} : record[key] # existing_record[key]

\* the loop over the nine keys: record_changed
RecordChanged(record, existing_record) ==
    \E key \in ComparableSet : record[key] # existing_record[key]

\* change_details that fills old_/new_ only for the fields that differ
ChangeDetails_OnlyChanged(system_id, record, existing_record, now) ==
    [col \in CsvColumnSet |->
        IF col = "timestamp" THEN isoformat(now)
        ELSE IF col = "action" THEN "update"
        ELSE IF col = "system_id" THEN system_id
        ELSE LET key == CHOOSE k \in Tracked : col \in {OldCol(k), NewCol(k)}
                 val == IF col = OldCol(key) THEN existing_record[key] ELSE record[key]
             IN IF record[key] = existing_record[key] THEN ""
                ELSE IF key \in ComparableSet THEN StrOrEmpty(val) ELSE IsoOrEmpty(val)]

\* change_details of an existing row: old_/new_ of every tracked field
ChangeDetails(system_id, record, existing_record, now) ==
    [col \in CsvColumnSet |->
        IF col = "timestamp" THEN isoformat(now)
        ELSE IF col = "action" THEN "update"
        ELSE IF col = "system_id" THEN system_id
        ELSE LET key == CHOOSE k \in Tracked : col \in {OldCol(k), NewCol(k)}
                 val == IF col = OldCol(key) THEN existing_record[key] ELSE record[key]
             IN IF key \in ComparableSet THEN StrOrEmpty(val) ELSE IsoOrEmpty(val)]

\* the change-log entry of an insert
InsertDetails(system_id, now) ==
    [col \in CsvColumnSet |->
        IF col = "timestamp" THEN isoformat(now)
        ELSE IF col = "action" THEN "insert"
        ELSE IF col = "system_id" THEN (IF system_id = None THEN "None" ELSE system_id)
        ELSE ""]

\* the branches without the `system_id is None` test: a record without
\* identifier is looked up like any other
Classify_LookupNone(main, record) ==
    IF Matching(main, record.system_id) = {} THEN "insert"
    ELSE IF RecordChanged(record, fetchone(main, record.system_id)) THEN "update"
    ELSE "noop"

\* a changed record takes the insert branch
Classify_InsertChanged(main, record) ==
    IF record.system_id = None THEN "insert"
    ELSE IF Matching(main, record.system_id) = {} THEN "insert"
    ELSE IF RecordChanged(record, fetchone(main, record.system_id)) THEN "insert"
    ELSE "noop"

\* which branch of the loop body a record takes against the rows the
\* connection sees
Classify(main, record) ==
    IF record.system_id = None THEN "insert"
    ELSE IF Matching(main, record.system_id) = {} THEN "insert"
    ELSE IF RecordChanged(record, fetchone(main, record.system_id)) THEN "update"
    ELSE "noop"

\* the store operations a record performs, in order; each may raise
StoreOps(main, record) ==
    LET class == Classify(main, record)
    IN (IF record.system_id = None THEN <<>> ELSE <<"select">>)
       \o (IF class = "insert" THEN <<"insert">>
           ELSE IF class = "update" THEN <<"insert_history", "update">>
           ELSE <<>>)
       \o <<"commit">>

FailPoints(main, record) == {"none"} \cup Range(StoreOps(main, record))

\* a commit that makes nothing durable
Committed_Nothing(db, view) == db

\* connection.commit(): the committed tables become what the connection sees
Committed(db, view) == view

(***************************************************************************)
(* One iteration of the loop of upsert_data over `record`, with the store  *)
(* operation `fail` raising ("none": no operation raises).  st is the      *)
(* function's local state and the tables as the connection sees them.      *)
(* exc tells how the iteration ended: "none" (committed), "caught" (the    *)
(* except clause ran and the loop continued, the commit skipped), or       *)
(* "raised" (commit() raised, outside the try block).                      *)
(***************************************************************************)
\* the loop body with the main update executed before the history insert
LoopBody_UpdateFirst(st, record, fail, now) ==
    LET system_id == record.system_id
        class == Classify(st.main, record)
        Caught(s) == [st |-> s, exc |-> "caught"]
        Done(s) == [st |-> s, exc |-> IF fail = "commit" THEN "raised" ELSE "none"]
    IN IF fail = "select" THEN Caught(st)
       ELSE IF class = "insert" THEN
            IF fail = "insert" THEN Caught(st)
            ELSE Done([st EXCEPT !.main = InsertMain(@, record),
                                 !.rows_added = @ + 1,
                                 !.changes_log = Append(@, InsertDetails(system_id, now))])
       ELSE IF class = "update" THEN
            LET existing_record == fetchone(st.main, system_id)
                change_details == ChangeDetails(system_id, record, existing_record, now)
                updated == [st EXCEPT !.main = UpdateMain(@, system_id, record),
                                      !.rows_updated = @ + 1]
            IN IF fail = "update" THEN Caught(st)
               ELSE IF fail = "insert_history" THEN Caught(updated)
               ELSE Done([updated EXCEPT !.hist = InsertHistory(@, existing_record, now),
                                         !.historical_count = @ + 1,
                                         !.changes_log = Append(@, change_details)])
       ELSE Done(st)

\* the loop body with change_details appended to the change log before the
\* main update is executed
LoopBody_LogFirst(st, record, fail, now) ==
    LET system_id == record.system_id
        class == Classify(st.main, record)
        Caught(s) == [st |-> s, exc |-> "caught"]
        Done(s) == [st |-> s, exc |-> IF fail = "commit" THEN "raised" ELSE "none"]
    IN IF fail = "select" THEN Caught(st)
       ELSE IF class = "insert" THEN
            IF fail = "insert" THEN Caught(st)
            ELSE Done([st EXCEPT !.main = InsertMain(@, record),
                                 !.rows_added = @ + 1,
                                 !.changes_log = Append(@, InsertDetails(system_id, now))])
       ELSE IF class = "update" THEN
            LET existing_record == fetchone(st.main, system_id)
                change_details == ChangeDetails(system_id, record, existing_record, now)
                archived == [st EXCEPT !.hist = InsertHistory(@, existing_record, now),
                                       !.historical_count = @ + 1,
                                       !.changes_log = Append(@, change_details)]
            IN IF fail = "insert_history" THEN Caught(st)
               ELSE IF fail = "update" THEN Caught(archived)
               ELSE Done([archived EXCEPT !.main = UpdateMain(@, system_id, record),
                                          !.rows_updated = @ + 1])
       ELSE Done(st)

LoopBody(st, record, fail, now) ==
    LET system_id == record.system_id
        class == Classify(st.main, record)
        Caught(s) == [st |-> s, exc |-> "caught"]
        Done(s) == [st |-> s, exc |-> IF fail = "commit" THEN "raised" ELSE "none"]
    IN IF fail = "select" THEN Caught(st)
       ELSE IF class = "insert" THEN
            IF fail = "insert" THEN Caught(st)
            ELSE Done([st EXCEPT !.main = InsertMain(@, record),
                                 !.rows_added = @ + 1,
                                 !.changes_log = Append(@, InsertDetails(system_id, now))])
       ELSE IF class = "update" THEN
            LET existing_record == fetchone(st.main, system_id)
                change_details == ChangeDetails(system_id, record, existing_record, now)
                archived == [st EXCEPT !.hist = InsertHistory(@, existing_record, now),
                                       !.historical_count = @ + 1]
            IN IF fail = "insert_history" THEN Caught(st)
               ELSE IF fail = "update" THEN Caught(archived)
               ELSE Done([archived EXCEPT !.main = UpdateMain(@, system_id, record),
                                          !.rows_updated = @ + 1,
                                          !.changes_log = Append(@, change_details)])
       ELSE Done(st)

\* the file opened in append mode
WriteCsv_Append(file, changes_log) ==
    [exists |-> TRUE, header |-> CSV_COLUMNS, rows |-> file.rows \o changes_log]

\* csv.DictWriter over open(changes_log_file, "w"): header, then the rows
WriteCsv(file, changes_log) ==
    [exists |-> TRUE, header |-> CSV_COLUMNS, rows |-> changes_log]

NoFile == [exists |-> FALSE, header |-> <<>>, rows |-> <<>>]

EmptyFile == [exists |-> TRUE, header |-> <<>>, rows |-> <<>>]

(***************************************************************************)
(* State.                                                                  *)
(***************************************************************************)
VARIABLES
    pc,                \* "idle": before main; "upsert": in the loop of upsert_data; "done": main returned
    run,               \* executions of main started so far; the clock
    main_table,        \* committed rows of GFTX_CXALLOY_System_DATA, in IDX order
    history_table,     \* committed rows of GFTX_CXALLOY_System_DATA_History
    conn,              \* [main, hist]: the tables as the open connection sees them
    data,              \* the batch handed to upsert_data
    idx,               \* records of data the loop has gone through
    rows_added, rows_updated, historical_count, changes_log,
    csvfile,           \* data_changes_log.csv
    changes_log_file,  \* the file name upsert_data returns: None after an IOError
    fetched,           \* records fetched so far, repeats of a fetch apart
    fails,             \* store operations that have raised so far
    result,            \* how main ended
    rerun,             \* this run repeats the fetch of a complete, failure-free run
    db0,               \* the committed tables when upsert_data was entered
    outcomes           \* per record gone through: its branch and the operation that raised

\* the program from its start to the end of main, without the inside of
\* upsert_data
VARIABLES
    env,               \* the configuration values missing from the environment
    mpc,               \* "load", "aborted", "main", "fetch", "connect", "schema", "upsert", "end"
    project_ids,       \* the projects main hands to fetch_data_for_projects
    proj,              \* index in project_ids of the project being fetched
    page,              \* fetch_data_for_projects: page
    requests,          \* the GET /system requests issued, each with what came back
    all_data,          \* fetch_data_for_projects: all_data, a page's records as one chunk
    listed,            \* GET /project requests issued
    connects,          \* pyodbc.connect calls
    wrote,             \* upsert_data was entered: rows may have been written
    reported,          \* "Total execution time" was printed
    error              \* the exception that ended main, where it was raised, whether main caught it

\* process_equipment_data over one page
VARIABLES
    page_data,         \* the raw records of the page
    raw_done,          \* raw records gone through
    processed_data     \* process_equipment_data: processed_data

storevars == <<pc, run, main_table, history_table, conn, data, idx, rows_added,
               rows_updated, historical_count, changes_log, csvfile, changes_log_file,
               fetched, fails, result, rerun, db0, outcomes>>

runvars == <<env, mpc, project_ids, proj, page, requests, all_data, listed,
             connects, wrote, reported, error>>

procvars == <<page_data, raw_done, processed_data>>

vars == <<storevars, runvars, procvars>>

dbvars == <<main_table, history_table>>

loopvars == <<conn, data, idx, rows_added, rows_updated, historical_count,
              changes_log, changes_log_file, db0, outcomes>>

NoError == [kind |-> "none", at |-> "none", caught |-> FALSE]

\* the variables of main's outer part, for a process whose configuration is
\* complete and that is about to call upsert_data
RunIdle ==
    /\ env = {}
    /\ mpc = "upsert"
    /\ project_ids = <<>>
    /\ proj = 1
    /\ page = 1
    /\ requests = <<>>
    /\ all_data = <<>>
    /\ listed = 0
    /\ connects = 0
    /\ wrote = FALSE
    /\ reported = FALSE
    /\ error = NoError

ProcIdle ==
    /\ page_data = <<>>
    /\ raw_done = 0
    /\ processed_data = <<>>

StoreIdle ==
    /\ pc = "idle"
    /\ run = 1
    /\ main_table = <<>>
    /\ history_table = <<>>
    /\ conn = [main |-> <<>>, hist |-> <<>>]
    /\ data = <<>>
    /\ idx = 0
    /\ rows_added = 0
    /\ rows_updated = 0
    /\ historical_count = 0
    /\ changes_log = <<>>
    /\ csvfile = NoFile
    /\ changes_log_file = None
    /\ fetched = 0
    /\ fails = 0
    /\ result = "none"
    /\ rerun = FALSE
    /\ db0 = [main |-> <<>>, hist |-> <<>>]
    /\ outcomes = <<>>

\* the state after construction: an empty database, main not yet called
Init == StoreIdle /\ RunIdle /\ ProcIdle

\* the state of upsert_data's locals at entry
EnterUpsert(batch) ==
    /\ conn' = [main |-> main_table, hist |-> history_table]
    /\ data' = batch
    /\ idx' = 0
    /\ rows_added' = 0
    /\ rows_updated' = 0
    /\ historical_count' = 0
    /\ changes_log' = <<>>
    /\ changes_log_file' = None
    /\ db0' = [main |-> main_table, hist |-> history_table]
    /\ outcomes' = <<>>

\* main ends before upsert_data is entered
EndEarly(how) ==
    /\ pc' = "done"
    /\ result' = how
    /\ UNCHANGED <<run, main_table, history_table, loopvars, csvfile, fetched, fails, rerun>>
    /\ UNCHANGED <<runvars, procvars>>

\* get_project_list() returns no projects (or fails and returns []): return
Main_NoProjects ==
    /\ pc = "idle"
    /\ EndEarly("no_projects")

\* the fetch returns no records: "No system data to process."
Main_NoData ==
    /\ pc = "idle"
    /\ EndEarly("no_data")

\* connect_db, create_table_if_not_exists or
\* create_history_table_if_not_exists raises: caught at the outermost scope
\* (a table that does not exist yet holds no row either way)
Main_StoreFail ==
    /\ pc = "idle"
    /\ EndEarly("error")

\* records were fetched, the connection opened and both tables ensured:
\* upsert_data is entered with the batch
Main_Upsert ==
    /\ pc = "idle"
    /\ \E batch \in Batches(Now(run)) :
          /\ fetched + Len(batch) <= MaxRecords
          /\ fetched' = fetched + Len(batch)
          /\ EnterUpsert(batch)
    /\ pc' = "upsert"
    /\ rerun' = FALSE
    /\ UNCHANGED <<run, main_table, history_table, csvfile, fails, result>>
    /\ UNCHANGED <<runvars, procvars>>

\* one iteration of the loop of upsert_data
Upsert_Record ==
    /\ pc = "upsert"
    /\ idx < Len(data)
    /\ LET record == data[idx + 1]
           st == [main |-> conn.main, hist |-> conn.hist, rows_added |-> rows_added,
                  rows_updated |-> rows_updated, historical_count |-> historical_count,
                  changes_log |-> changes_log]
       IN \E fail \in FailPoints(conn.main, record) :
            LET r == LoopBody(st, record, fail, Now(run))
                view == [main |-> r.st.main, hist |-> r.st.hist]
                db == [main |-> main_table, hist |-> history_table]
                after == IF r.exc = "none" THEN Committed(db, view) ELSE db
            IN /\ fails' = IF fail = "none" THEN fails ELSE fails + 1
               /\ fails' <= MaxFails
               /\ rows_added' = r.st.rows_added
               /\ rows_updated' = r.st.rows_updated
               /\ historical_count' = r.st.historical_count
               /\ changes_log' = r.st.changes_log
               /\ main_table' = after.main
               /\ history_table' = after.hist
               /\ idx' = idx + 1
               /\ outcomes' = Append(outcomes, [class |-> Classify(conn.main, record),
                                                fail |-> fail])
               /\ IF r.exc = "raised"
                  THEN \* the exception leaves upsert_data and is caught in main:
                       \* the connection is dropped with its transaction
                       /\ pc' = "done"
                       /\ result' = "error"
                       /\ conn' = db
                  ELSE /\ pc' = "upsert"
                       /\ result' = result
                       /\ conn' = view
    /\ UNCHANGED <<run, data, csvfile, changes_log_file, fetched, rerun, db0>>
    /\ UNCHANGED <<runvars, procvars>>

\* after the loop: the audit file is written, upsert_data returns and main
\* closes the connection (what was not committed is rolled back)
Upsert_WriteLog ==
    /\ pc = "upsert"
    /\ idx = Len(data)
    /\ \E io \in {"ok", "open_fails", "write_fails"} :
          /\ csvfile' = IF io = "ok" THEN WriteCsv(csvfile, changes_log)
                        ELSE IF io = "open_fails" THEN csvfile
                        ELSE EmptyFile
          /\ changes_log_file' = IF io = "ok" THEN "data_changes_log.csv" ELSE None
    /\ conn' = [main |-> main_table, hist |-> history_table]
    /\ pc' = "done"
    /\ result' = "ok"
    /\ UNCHANGED <<run, dbvars, data, idx, rows_added, rows_updated, historical_count,
                   changes_log, fetched, fails, rerun, db0, outcomes>>
    /\ UNCHANGED <<runvars, procvars>>

Clean == \A i \in DOMAIN outcomes : outcomes[i].fail = "none"

\* main is executed again
Main_Again ==
    /\ pc = "done"
    /\ run < MaxRuns
    /\ pc' = "idle"
    /\ run' = run + 1
    /\ result' = "none"
    /\ rerun' = FALSE
    /\ EnterUpsert(<<>>)
    /\ UNCHANGED <<dbvars, csvfile, fetched, fails>>
    /\ UNCHANGED <<runvars, procvars>>

\* main is executed again and the upstream is unchanged: the fetch returns
\* the records of the last run (with the new fetch time)
Main_Rerun ==
    /\ pc = "done"
    /\ run < MaxRuns
    /\ result = "ok"
    /\ EnterUpsert([i \in DOMAIN data |-> [data[i] EXCEPT !.timeUpdated = Now(run + 1)]])
    /\ pc' = "upsert"
    /\ run' = run + 1
    /\ result' = "none"
    /\ rerun' = Clean
    /\ UNCHANGED <<dbvars, csvfile, fetched, fails>>
    /\ UNCHANGED <<runvars, procvars>>

Next ==
    \/ Main_NoProjects
    \/ Main_NoData
    \/ Main_StoreFail
    \/ Main_Upsert
    \/ Upsert_Record
    \/ Upsert_WriteLog
    \/ Main_Again
    \/ Main_Rerun

Spec == Init /\ [][Next]_vars

(***************************************************************************)
(* Properties.                                                             *)
(***************************************************************************)
\* a step that is one iteration of the loop of upsert_data; the record it
\* goes through is data[idx + 1], its outcome outcomes'[idx']
LoopStep == pc = "upsert" /\ idx' = idx + 1

CountsUnchanged ==
    UNCHANGED <<rows_added, rows_updated, historical_count>>

\* so far this run has classified no record as insert or update and has
\* written nothing, to the tables or to the change log
NothingDone ==
    /\ \A i \in DOMAIN outcomes : outcomes[i].class = "noop"
    /\ rows_added = 0 /\ rows_updated = 0 /\ historical_count = 0
    /\ changes_log = <<>>
    /\ conn = db0
    /\ main_table = db0.main /\ history_table = db0.hist

Identified(batch) == \A i \in DOMAIN batch : batch[i].system_id # None

SameKeyAgree(batch) ==
    \A i, j \in DOMAIN batch :
        batch[i].system_id = batch[j].system_id
            => \A key \in ComparableSet : batch[i][key] = batch[j][key]

\* C1 as stated: a run of upsert_data that repeats the batch of a
\* failure-free run, against the store that run left, classifies no record
\* as insert or update, writes no table and logs nothing.
C1_Idempotent ==
    (rerun /\ \A i \in DOMAIN outcomes : outcomes[i].fail = "none") => NothingDone

\* C1, amended: the same, for batches in which every record has a
\* system_id and the records sharing a system_id agree on the nine
\* comparable attributes.
C1_IdempotentIdentified ==
    (rerun /\ Identified(data) /\ SameKeyAgree(data)) => NothingDone

C1_Witness ==
    /\ rerun /\ pc = "done" /\ result = "ok"
    /\ Len(data) >= 2 /\ Identified(data) /\ SameKeyAgree(data)
    /\ \A i \in DOMAIN outcomes : outcomes[i].fail = "none"
    /\ \E i \in DOMAIN data : data[i].timeUpdated # fetchone(main_table, data[i].system_id).timeUpdated

\* the record of this loop step has a main row that equals it on the nine
\* comparable attributes
SameComparable ==
    LET record == data[idx + 1]
    IN /\ record.system_id # None
       /\ Matching(conn.main, record.system_id) # {}
       /\ \A key \in ComparableSet :
             record[key] = fetchone(conn.main, record.system_id)[key]

\* C2: a record whose main row equals it on the nine comparable attributes,
\* whatever its handover_date and timeUpdated, is a no-op: the main table
\* (stored handover_date and timeUpdated included) is left as it is, no
\* history row is written, no change-log entry is appended and no count
\* changes.
C2_ChangeTriggerIsolation ==
    [][(LoopStep /\ SameComparable) =>
          /\ outcomes'[idx'].class = "noop"
          /\ main_table' = main_table
          /\ conn'.main = conn.main
          /\ pc' = "upsert" => conn'.hist = conn.hist
          /\ history_table' \in {history_table, conn.hist}
          /\ changes_log' = changes_log
          /\ CountsUnchanged]_vars

C2_Witness ==
    /\ pc = "upsert" /\ idx > 0
    /\ outcomes[idx] = [class |-> "noop", fail |-> "none"]
    /\ LET row == fetchone(main_table, data[idx].system_id)
       IN /\ row.handover_date # data[idx].handover_date
          /\ row.timeUpdated # data[idx].timeUpdated

\* the record of this loop step has a main row that differs from it in one
\* of the nine comparable attributes
Differs ==
    LET record == data[idx + 1]
    IN /\ record.system_id # None
       /\ Matching(conn.main, record.system_id) # {}
       /\ \E key \in ComparableSet :
             record[key] # fetchone(conn.main, record.system_id)[key]

Last(s) == s[Len(s)]

\* t is s with one element appended
Extends(t, s) == Len(t) = Len(s) + 1 /\ SubSeq(t, 1, Len(s)) = s

\* C3: a record classified as update (it has a main row that differs in a
\* comparable attribute; none of its store operations raises) creates
\* exactly one history row, holding the twelve values of the main row
\* before the update; the main row takes the eleven other values of the
\* record and keeps its system_id; rows_updated and historical_count grow
\* by one each and one 'update' entry is appended to the change log.
C3_UpdateWithArchive ==
    [][(LoopStep /\ Differs /\ outcomes'[idx'].fail = "none") =>
          LET record == data[idx + 1]
              system_id == record.system_id
              old == fetchone(conn.main, system_id)
          IN /\ outcomes'[idx'].class = "update"
             /\ Extends(conn'.hist, conn.hist)
             /\ \A c \in Columns : Last(conn'.hist)[c] = old[c]
             /\ DOMAIN conn'.main = DOMAIN conn.main
             /\ \A i \in DOMAIN conn.main :
                   IF conn.main[i].system_id = system_id
                   THEN /\ conn'.main[i].system_id = system_id
                        /\ \A c \in Tracked : conn'.main[i][c] = record[c]
                   ELSE conn'.main[i] = conn.main[i]
             /\ main_table' = conn'.main
             /\ history_table' = conn'.hist
             /\ rows_updated' = rows_updated + 1
             /\ historical_count' = historical_count + 1
             /\ rows_added' = rows_added
             /\ Extends(changes_log', changes_log)
             /\ Last(changes_log').action = "update"
             /\ Last(changes_log').system_id = system_id]_vars

C3_Witness ==
    /\ pc = "upsert" /\ idx > 0
    /\ outcomes[idx] = [class |-> "update", fail |-> "none"]
    /\ fetchone(main_table, data[idx].system_id).name = "A2"
    /\ fetchone(main_table, data[idx].system_id).handover_date = Handover
    /\ Last(history_table).name = "A"
    /\ Last(history_table).handover_date = None
    /\ Last(changes_log).old_name = "A" /\ Last(changes_log).new_name = "A2"

\* the record of this loop step has no system_id, or one without main row
Unknown ==
    LET record == data[idx + 1]
    IN record.system_id = None \/ Matching(conn.main, record.system_id) = {}

\* C7: a record without system_id, whatever the store holds, and a record
\* whose system_id has no main row are classified as insert; when none of
\* the record's store operations raises, one main row with its twelve
\* values is inserted, no history row is written, rows_added grows by one
\* and one entry is appended to the change log: action 'insert', the
\* system_id as subject ("None" for a null one) and the 22 old_/new_ fields
\* empty.
C7_InsertWithoutDiff ==
    [][(LoopStep /\ Unknown) =>
          LET record == data[idx + 1]
              entry == Last(changes_log')
          IN /\ outcomes'[idx'].class = "insert"
             /\ outcomes'[idx'].fail = "none" =>
                   /\ conn'.main = Append(conn.main, record)
                   /\ main_table' = conn'.main
                   /\ conn'.hist = conn.hist
                   /\ rows_added' = rows_added + 1
                   /\ UNCHANGED <<rows_updated, historical_count>>
                   /\ Extends(changes_log', changes_log)
                   /\ DOMAIN entry = CsvColumnSet
                   /\ entry.action = "insert"
                   /\ entry.system_id = IF record.system_id = None THEN "None"
                                        ELSE record.system_id
                   /\ Cardinality(DiffColumns) = 22
                   /\ \A col \in DiffColumns : entry[col] = ""]_vars

C7_Witness ==
    /\ pc = "upsert" /\ idx > 0
    /\ outcomes[idx] = [class |-> "insert", fail |-> "none"]
    /\ data[idx].system_id = None
    /\ \E i \in 1..(Len(main_table) - 1) : main_table[i].system_id = None
    /\ Last(main_table) = data[idx]
    /\ history_table = db0.hist
    /\ Last(changes_log).system_id = "None"

\* the text the audit file shows for the value v of the tracked field key
Shown(key, v) ==
    IF v = None THEN ""
    ELSE IF key \in {"timeUpdated", "handover_date"} THEN v \o "T00:00:00"
    ELSE v

\* C8: the change-log entry appended for an update carries, for each of
\* the eleven tracked fields, the string form of the value persisted
\* before the update as old_<field> and the string form of the fetched
\* value as new_<field> (empty for null), whether the field changed or not.
C8_UpdateEntryComplete ==
    [][(LoopStep /\ Extends(changes_log', changes_log)
                /\ Last(changes_log').action = "update") =>
          LET record == data[idx + 1]
              old == fetchone(conn.main, record.system_id)
              entry == Last(changes_log')
          IN \A key \in Tracked :
                /\ entry["old_" \o key] = Shown(key, old[key])
                /\ entry["new_" \o key] = Shown(key, record[key])]_vars

C8_Witness ==
    /\ pc = "upsert" /\ idx > 0
    /\ outcomes[idx] = [class |-> "update", fail |-> "none"]
    /\ LET entry == Last(changes_log)
       IN /\ entry.old_project_id = "P1" /\ entry.new_project_id = "P1"
          /\ entry.old_checklist_name = "CL" /\ entry.new_checklist_name = ""
          /\ entry.old_description = "" /\ entry.new_description = ""
          /\ entry.old_handover_date = "" /\ entry.new_handover_date # ""
          /\ entry.old_timeUpdated # entry.new_timeUpdated

(***************************************************************************)
(* The run of upsert_data over a batch in which no store operation raises, *)
(* from the tables db: the state it ends in and the branch each record     *)
(* takes.                                                                  *)
(***************************************************************************)
RECURSIVE Fold(_, _, _, _)
Fold(st, classes, batch, now) ==
    IF batch = <<>> THEN [st |-> st, classes |-> classes]
    ELSE Fold(LoopBody(st, Head(batch), "none", now).st,
              Append(classes, Classify(st.main, Head(batch))),
              Tail(batch), now)

FailureFree(db, batch, now) ==
    Fold([main |-> db.main, hist |-> db.hist, rows_added |-> 0, rows_updated |-> 0,
          historical_count |-> 0, changes_log |-> <<>>], <<>>, batch, now)

\* the elements of s at the indices of keep, in order
RECURSIVE Pick(_, _, _)
Pick(s, keep, i) ==
    IF i > Len(s) THEN <<>>
    ELSE (IF i \in keep THEN <<s[i]>> ELSE <<>>) \o Pick(s, keep, i + 1)

\* the records of the batch none of whose store operations raised
NotFailed == {i \in DOMAIN data : i > Len(outcomes) \/ outcomes[i].fail = "none"}

\* C4: when store operations of some records of a batch raise (select,
\* history insert, main update, main insert or commit), upsert_data goes
\* on: every other record is processed, takes the branch it would take in
\* the batch without the failed records, and its writes are committed.
C4_FailureContinuation ==
    (pc = "done" /\ data # <<>>) =>
        LET ref == FailureFree(db0, Pick(data, NotFailed, 1), Now(run))
        IN /\ idx = Len(data)
           /\ Pick([i \in DOMAIN outcomes |-> outcomes[i].class], NotFailed, 1) = ref.classes
           /\ main_table = ref.st.main
           /\ \A i \in DOMAIN ref.st.hist : \E j \in DOMAIN history_table :
                 history_table[j] = ref.st.hist[i]

\* C5: the counts upsert_data returns for a batch in which store
\* operations of some records raise are those of the batch without these
\* records.
C5_CountsExcludeFailed ==
    (pc = "done" /\ result = "ok") =>
        LET ref == FailureFree(db0, Pick(data, NotFailed, 1), Now(run))
        IN /\ rows_added = ref.st.rows_added
           /\ rows_updated = ref.st.rows_updated
           /\ historical_count = ref.st.historical_count

\* C6: the writes of a record processed without error are committed
\* before the next record is read (all the connection sees is then
\* committed), and neither a record that fails nor the end of the run
\* changes a committed table; writes left pending by a failed record are
\* history rows appended after the committed ones.
C6_CommitPerRecord ==
    [][/\ LoopStep =>
            IF outcomes'[idx'].fail = "none"
            THEN /\ main_table' = conn'.main
                 /\ history_table' = conn'.hist
                 /\ DOMAIN main_table \subseteq DOMAIN main_table'
                 /\ \A i \in DOMAIN main_table :
                       main_table'[i] # main_table[i]
                           => main_table[i].system_id = data[idx + 1].system_id
            ELSE UNCHANGED <<main_table, history_table>>
       /\ (pc = "upsert" /\ ~LoopStep) => UNCHANGED <<main_table, history_table>>
       /\ pc' = "upsert" =>
            /\ conn'.main = main_table'
            /\ SubSeq(conn'.hist, 1, Len(history_table')) = history_table']_vars

C6_Witness ==
    /\ pc = "done" /\ result = "ok" /\ idx = 2
    /\ outcomes[1] = [class |-> "insert", fail |-> "none"]
    /\ outcomes[2] = [class |-> "update", fail |-> "update"]
    /\ main_table = Append(db0.main, data[1])
    /\ history_table = db0.hist

\* C9: no committed main row is ever deleted, and the committed history
\* table only grows by appends: its rows are never modified or deleted.
C9_MonotoneStore ==
    [][/\ Len(main_table') >= Len(main_table)
       /\ \A i \in DOMAIN main_table : main_table'[i].system_id = main_table[i].system_id
       /\ Len(history_table') >= Len(history_table)
       /\ SubSeq(history_table', 1, Len(history_table)) = history_table]_vars

C9_Witness ==
    /\ run >= 2 /\ pc = "done" /\ fails >= 1
    /\ Len(history_table) >= 2
    /\ history_table[1].system_id = history_table[2].system_id
    /\ \E i \in DOMAIN main_table : main_table[i].system_id = history_table[1].system_id

\* C10 as stated: after every execution of main the audit file holds the
\* 25-column header and exactly the change-log entries of that run.
C10_AuditFilePerRun ==
    pc = "done" => csvfile = [exists |-> TRUE, header |-> CSV_COLUMNS, rows |-> changes_log]

\* C10, amended: the audit file is touched only where upsert_data ends,
\* after its loop; when upsert_data returns the file's name, the file
\* holds the 25-column header and exactly the change-log entries of that
\* run.  A run that ends otherwise leaves the file as it was.
C10_AuditFileWhenWritten ==
    [][/\ csvfile' # csvfile => (pc = "upsert" /\ idx = Len(data) /\ pc' = "done")
       /\ (pc' = "done" /\ result' = "ok" /\ changes_log_file' # None) =>
            /\ csvfile'.exists
            /\ csvfile'.header = CSV_COLUMNS /\ Len(csvfile'.header) = 25
            /\ csvfile'.rows = changes_log'
            /\ \A i \in DOMAIN csvfile'.rows :
                  csvfile'.rows[i].timestamp = isoformat(Now(run'))]_vars

C10_Witness ==
    /\ run >= 2 /\ pc = "done" /\ result = "ok" /\ changes_log_file # None
    /\ Len(changes_log) = 1
    /\ csvfile.rows = changes_log
    /\ db0.main # <<>>

\* the loop body applied to the committed tables, no operation raising: the
\* tables with all of the record's writes
WholeRecord(record, now) ==
    LoopBody([main |-> main_table, hist |-> history_table, rows_added |-> 0,
              rows_updated |-> 0, historical_count |-> 0, changes_log |-> <<>>],
             record, "none", now).st

\* C15: the writes of a record reach the committed tables as one unit or
\* not at all: a loop step leaves the committed tables as they were, or
\* leaves them with all the writes of its record and nothing else (so no
\* history row of a record whose main update failed is ever committed).
C15_RecordAtomicity ==
    [][LoopStep =>
          LET whole == WholeRecord(data[idx + 1], Now(run))
          IN \/ UNCHANGED <<main_table, history_table>>
             \/ main_table' = whole.main /\ history_table' = whole.hist]_vars

\* the last record of the batch with the system_id of record i
LastOfKey(i) ==
    data[CHOOSE j \in DOMAIN data :
            /\ data[j].system_id = data[i].system_id
            /\ \A k \in DOMAIN data : data[k].system_id = data[i].system_id => k <= j]

\* C16: upsert_data goes through every record of the batch, duplicates
\* included; after a run in which no operation raised the main table holds,
\* for every non-null system_id of the batch, exactly one row, and its nine
\* comparable attributes are those of the last record of the batch with
\* that system_id.
C16_LastWriteWins ==
    (pc = "done" /\ result = "ok" /\ Clean) =>
        /\ Len(outcomes) = Len(data)
        /\ \A i \in DOMAIN data :
              data[i].system_id # None =>
                 /\ Cardinality(Matching(main_table, data[i].system_id)) = 1
                 /\ \A key \in ComparableSet :
                       fetchone(main_table, data[i].system_id)[key] = LastOfKey(i)[key]

C16_Witness ==
    /\ pc = "done" /\ result = "ok" /\ Clean
    /\ Len(data) = 2
    /\ data[1].system_id = data[2].system_id /\ data[1].system_id # None
    /\ data[1].name # data[2].name
    /\ outcomes[1].class = "insert" /\ outcomes[2].class = "update"
    /\ fetchone(main_table, data[1].system_id).name = data[2].name

\* C17: in the processing of one record the history insert comes before the
\* main update, and the update is not executed when the history insert
\* raises; a loop step that overwrites a main row appends that row's former
\* values to the history table in the same transaction, in what the
\* connection sees and in what is committed.
C17_ArchivePrecedesOverwrite ==
    [][LoopStep =>
          LET record == data[idx + 1]
              ops == StoreOps(conn.main, record)
          IN /\ \A i, j \in DOMAIN ops :
                   (ops[i] = "insert_history" /\ ops[j] = "update") => i < j
             /\ outcomes'[idx'].fail = "insert_history" =>
                   conn'.main = conn.main /\ conn'.hist = conn.hist
             /\ \A i \in DOMAIN conn.main :
                   conn'.main[i] # conn.main[i] =>
                      /\ Extends(conn'.hist, conn.hist)
                      /\ \A c \in Columns : Last(conn'.hist)[c] = conn.main[i][c]
             /\ \A i \in DOMAIN main_table :
                   main_table'[i] # main_table[i] =>
                      /\ Len(history_table') > Len(history_table)
                      /\ \A c \in Columns : Last(history_table')[c] = main_table[i][c]]_vars

C17_Witness ==
    /\ pc = "upsert" /\ idx > 0
    /\ outcomes[idx] = [class |-> "update", fail |-> "insert_history"]
    /\ Len(history_table) >= 1
    /\ conn.hist = history_table
    /\ fetchone(main_table, data[idx].system_id).name # data[idx].name
    /\ fetchone(conn.main, data[idx].system_id).name # data[idx].name

\* each non-null system_id has at most one row in main
UniqueKeys(main) ==
    \A i, j \in DOMAIN main :
        (main[i].system_id = main[j].system_id /\ main[i].system_id # None) => i = j

\* C18: from a main table with at most one row per non-null system_id,
\* whatever the batches and whichever operations raise, the main table
\* keeps at most one row per non-null system_id, in what is committed and
\* in what the connection sees; rows without system_id may be several.
C18_KeyUniqueness == UniqueKeys(main_table) /\ UniqueKeys(conn.main)

C18_Witness ==
    /\ run >= 2 /\ pc = "done" /\ idx = 2
    /\ Cardinality(Matching(main_table, None)) >= 2
    /\ \E i \in DOMAIN data :
          /\ data[i].system_id # None
          /\ Cardinality(Matching(main_table, data[i].system_id)) = 1
          /\ Cardinality(Matching(db0.main, data[i].system_id)) = 1

\* the entries of log with the given action
OfAction(log, action) == SelectSeq(log, LAMBDA entry : entry.action = action)

\* the records gone through that took the insert or the update branch and
\* none of whose operations raised
Completed == {i \in DOMAIN outcomes : outcomes[i].class # "noop" /\ outcomes[i].fail = "none"}

\* C19: the change log has rows_added 'insert' entries and rows_updated
\* 'update' entries and no other; when upsert_data returns, with or
\* without records that failed, its entries are those of the records that
\* took the insert or the update branch and did not fail, in the order of
\* the batch: no-op and failed records have none.
C19_LogCountAgreement ==
    /\ Len(changes_log) = rows_added + rows_updated
    /\ Len(OfAction(changes_log, "insert")) = rows_added
    /\ Len(OfAction(changes_log, "update")) = rows_updated
    /\ (pc = "done" /\ result = "ok") =>
          [i \in DOMAIN changes_log |->
              [action |-> changes_log[i].action, system_id |-> changes_log[i].system_id]]
          = Pick([i \in DOMAIN outcomes |->
                     [action |-> outcomes[i].class,
                      system_id |-> IF data[i].system_id = None THEN "None"
                                    ELSE data[i].system_id]], Completed, 1)

C19_Witness ==
    /\ pc = "done" /\ result = "ok" /\ Len(data) = 2
    /\ outcomes[1] = [class |-> "update", fail |-> "update"]
    /\ outcomes[2] = [class |-> "noop", fail |-> "none"]
    /\ changes_log = <<>>
    /\ rows_added = 0 /\ rows_updated = 0 /\ historical_count = 1

(***************************************************************************)
(* The program around upsert_data: the configuration check at module load, *)
(* main, get_project_list, fetch_data_for_projects, connect_db and the two *)
(* schema functions.  upsert_data is one step here.                        *)
(***************************************************************************)
MaxProjects == 2    \* projects whose name holds 'GFTX'
MaxPages == 2       \* pages a project has upstream

PageSize == 500

\* the environment variables read at lines 19-28
ConfigKeys == {"IDENTIFIER", "SECRET", "SNAME", "DBASE", "UNAME", "PASS"}

\* the values the check at module load tests
Checked == {"IDENTIFIER", "SECRET", "SNAME", "DBASE"}

\* if not IDENTIFIER or not SECRET_KEY or not server or not database
MissingEnvironment(missing) == missing \cap Checked # {}

\* the environments considered: complete, one value missing, all missing
Environments == {{}} \cup {{k} : k \in ConfigKeys} \cup {ConfigKeys}

\* isinstance(e, cls) for the exceptions of the model: each is a direct
\* subclass of Exception and of no other class named in an except clause
IsInstance(e, cls) == cls = "Exception" \/ e = cls

\* the class named by each except clause
ProjectListExcept == "requests.RequestException"

FetchExcept == "aiohttp.ClientError"

\* main catching database errors only
MainExcept_PyodbcOnly == "pyodbc.Error"

MainExcept == "Exception"

ProjectId(i) == "P" \o ToString(i)

\* the numbers of records a page may hold
PageLens == {0, PageSize - 1, PageSize, PageSize + 1}

\* the page ends the pagination when it holds at most PageSize records
EndOfStream_AtMost(n) == n <= PageSize

\* if len(page_data) < 500: break
EndOfStream(n) == n < PageSize

InitRun ==
    /\ StoreIdle
    /\ ProcIdle
    /\ env \in Environments
    /\ mpc = "load"
    /\ project_ids = <<>>
    /\ proj = 1
    /\ page = 1
    /\ requests = <<>>
    /\ all_data = <<>>
    /\ listed = 0
    /\ connects = 0
    /\ wrote = FALSE
    /\ reported = FALSE
    /\ error = NoError

\* an exception reaches the try statement of main: except clause, finally
MainEnds(kind, at) ==
    /\ error' = [kind |-> kind, at |-> at, caught |-> IsInstance(kind, MainExcept)]
    /\ reported' = TRUE
    /\ mpc' = "end"

\* main returns, or runs off its try block: finally
MainReturns ==
    /\ reported' = TRUE
    /\ mpc' = "end"

\* module load: load_dotenv, os.getenv, the check of line 31
LoadConfig ==
    /\ mpc = "load"
    /\ IF MissingEnvironment(env)
       THEN /\ mpc' = "aborted"
            /\ error' = [kind |-> "ValueError", at |-> "load", caught |-> FALSE]
       ELSE /\ mpc' = "main"
            /\ error' = error
    /\ UNCHANGED <<env, project_ids, proj, page, requests, all_data, listed,
                   connects, wrote, reported>>
    /\ UNCHANGED <<storevars, procvars>>

\* main up to the call of fetch_data_for_projects
GetProjectList ==
    /\ mpc = "main"
    /\ listed' = listed + 1
    /\ \/ \* the request fails: get_project_list prints and returns []
          /\ IsInstance("requests.RequestException", ProjectListExcept)
          /\ error' = [kind |-> "requests.RequestException", at |-> "projects",
                       caught |-> TRUE]
          /\ MainReturns
          /\ UNCHANGED project_ids
       \/ \* no project: "No projects found."
          /\ error' = error
          /\ MainReturns
          /\ UNCHANGED project_ids
       \/ \* a project without 'name': proj['name'] raises
          /\ MainEnds("KeyError", "projects")
          /\ UNCHANGED project_ids
       \/ \* n of the projects have 'GFTX' in their name
          \E n \in 0..MaxProjects :
             /\ project_ids' = [i \in 1..n |-> ProjectId(i)]
             /\ mpc' = "fetch"
             /\ UNCHANGED <<error, reported>>
    /\ UNCHANGED <<env, proj, page, requests, all_data, connects, wrote>>
    /\ UNCHANGED <<storevars, procvars>>

\* the pagination of the current project ends: next project
Break ==
    /\ proj' = proj + 1
    /\ page' = 1

\* one iteration of `while True` in fetch_data_for_projects
FetchPage ==
    /\ mpc = "fetch"
    /\ proj <= Len(project_ids)
    /\ \/ \E n \in PageLens :
             /\ page < MaxPages \/ n < PageSize
             /\ requests' = Append(requests, [project |-> project_ids[proj], page |-> page,
                                              status |-> "ok", len |-> n])
             /\ IF n = 0
                THEN Break /\ all_data' = all_data
                ELSE /\ all_data' = Append(all_data, [project |-> project_ids[proj],
                                                      page |-> page, len |-> n])
                     /\ IF EndOfStream(n) THEN Break
                        ELSE proj' = proj /\ page' = page + 1
             /\ UNCHANGED <<mpc, error, reported>>
       \/ \E e \in {"aiohttp.ClientError", "asyncio.TimeoutError"} :
             /\ requests' = Append(requests, [project |-> project_ids[proj], page |-> page,
                                              status |-> e, len |-> 0])
             /\ all_data' = all_data
             /\ IF IsInstance(e, FetchExcept)
                THEN Break /\ UNCHANGED <<mpc, error, reported>>
                ELSE \* the exception leaves fetch_data_for_projects and asyncio.run
                     MainEnds(e, "fetch") /\ UNCHANGED <<proj, page>>
    /\ UNCHANGED <<env, project_ids, listed, connects, wrote>>
    /\ UNCHANGED <<storevars, procvars>>

\* fetch_data_for_projects returns all_data; main tests system_data
FetchReturn ==
    /\ mpc = "fetch"
    /\ proj > Len(project_ids)
    /\ IF all_data # <<>>
       THEN mpc' = "connect" /\ reported' = reported
       ELSE MainReturns
    /\ UNCHANGED <<env, project_ids, proj, page, requests, all_data, listed,
                   connects, wrote, error>>
    /\ UNCHANGED <<storevars, procvars>>

\* connect_db: pyodbc.connect returns a connection, or raises and the
\* exception is raised again
ConnectDb ==
    /\ mpc = "connect"
    /\ connects' = connects + 1
    /\ \/ mpc' = "schema" /\ UNCHANGED <<error, reported>>
       \/ MainEnds("pyodbc.Error", "connect")
    /\ UNCHANGED <<env, project_ids, proj, page, requests, all_data, listed, wrote>>
    /\ UNCHANGED <<storevars, procvars>>

\* create_table_if_not_exists and create_history_table_if_not_exists
EnsureSchema ==
    /\ mpc = "schema"
    /\ \/ mpc' = "upsert" /\ UNCHANGED <<error, reported>>
       \/ MainEnds("pyodbc.Error", "schema")
    /\ UNCHANGED <<env, project_ids, proj, page, requests, all_data, listed,
                   connects, wrote>>
    /\ UNCHANGED <<storevars, procvars>>

\* upsert_data as one step: it returns, or its commit raises
RunUpsert ==
    /\ mpc = "upsert"
    /\ wrote' = TRUE
    /\ \/ MainReturns /\ error' = error
       \/ MainEnds("pyodbc.Error", "upsert")
    /\ UNCHANGED <<env, project_ids, proj, page, requests, all_data, listed, connects>>
    /\ UNCHANGED <<storevars, procvars>>

NextRun ==
    \/ LoadConfig
    \/ GetProjectList
    \/ FetchPage
    \/ FetchReturn
    \/ ConnectDb
    \/ EnsureSchema
    \/ RunUpsert

SpecRun == InitRun /\ [][NextRun]_vars

\* the pages received that held records, as the chunks all_data is built of
Received ==
    LET got == SelectSeq(requests, LAMBDA r : r.status = "ok" /\ r.len > 0)
    IN [k \in DOMAIN got |-> [project |-> got[k].project, page |-> got[k].page,
                              len |-> got[k].len]]

\* request k was answered by a page that ends its project's pagination
EndsProject(k) ==
    requests[k].status = "ok" /\ (requests[k].len = 0 \/ requests[k].len < 500)

\* C11: the requests of a project are for the pages 1, 2, 3, ... in order;
\* after a page that is empty or holds fewer than 500 records no further
\* page of the project is requested; after a page of 500 records or more
\* the next page of the same project is requested next; and all_data holds
\* the records of every page received, in the order received.
C11_PaginationEndRule ==
    /\ \A k \in DOMAIN requests :
          IF k = 1 \/ requests[k - 1].project # requests[k].project
          THEN requests[k].page = 1
          ELSE /\ requests[k].page = requests[k - 1].page + 1
               /\ requests[k - 1].status = "ok"
               /\ ~EndsProject(k - 1)
    /\ \A k, l \in DOMAIN requests :
          (k < l /\ EndsProject(k)) => requests[l].project # requests[k].project
    /\ \A k \in DOMAIN requests :
          (requests[k].status = "ok" /\ ~EndsProject(k)) =>
             IF k < Len(requests)
             THEN /\ requests[k + 1].project = requests[k].project
                  /\ requests[k + 1].page = requests[k].page + 1
             ELSE /\ mpc = "fetch"
                  /\ project_ids[proj] = requests[k].project
                  /\ page = requests[k].page + 1
    /\ all_data = Received

C11_Witness ==
    /\ mpc = "connect"
    /\ Len(requests) = 3
    /\ requests[1] = [project |-> "P1", page |-> 1, status |-> "ok", len |-> 500]
    /\ requests[2] = [project |-> "P1", page |-> 2, status |-> "ok", len |-> 0]
    /\ requests[3] = [project |-> "P2", page |-> 1, status |-> "ok", len |-> 499]
    /\ Len(all_data) = 2

\* C12: a request of fetch_data_for_projects that fails, with a network or
\* HTTP error or with a timeout, ends the pagination of its project only:
\* all_data is kept, the fetch goes on with the next project and the run
\* goes on to reconciliation with what was collected.
C12_FetchErrorIsolation ==
    [][(mpc = "fetch" /\ Len(requests') = Len(requests) + 1
                      /\ Last(requests').status # "ok") =>
          /\ mpc' = "fetch"
          /\ all_data' = all_data
          /\ proj' = proj + 1
          /\ page' = 1
          /\ error' = error]_vars

\* C13: with one of the six configuration values missing the program
\* issues no HTTP request, opens no database connection and writes nothing.
C13_ConfigErrorsFatal ==
    env # {} => (listed = 0 /\ requests = <<>> /\ connects = 0 /\ ~wrote)

\* C14: main ends by printing the elapsed time, whatever was raised in it,
\* and no exception leaves it; nothing but the end of main prints the
\* elapsed time; and a run whose database connection failed has written
\* to no table.
C14_CleanExit ==
    /\ mpc = "end" => (reported /\ (error.kind # "none" => error.caught))
    /\ reported => mpc = "end"
    /\ error.at = "connect" => ~wrote
    /\ mpc \in {"main", "fetch", "connect", "schema", "upsert"} => error = NoError

C14_Witness ==
    /\ mpc = "end" /\ reported
    /\ error = [kind |-> "pyodbc.Error", at |-> "connect", caught |-> TRUE]
    /\ connects = 1 /\ ~wrote
    /\ all_data # <<>>
    /\ \E k \in DOMAIN requests : requests[k].status = "aiohttp.ClientError"

(***************************************************************************)
(* process_equipment_data over one page of raw records.  A raw record is   *)
(* the JSON object of one system: a key it lacks reads as None, a list it  *)
(* lacks as the empty list.                                                *)
(***************************************************************************)
MaxRaw == 2         \* raw records of the page

Raw(system_id, systems, attributes, checklists) ==
    [system_id |-> system_id, project_id |-> "P1", name |-> "A",
     description |-> None, building_id |-> "7", building |-> "B1",
     discipline_id |-> "3", discipline |-> "Mech", checklist_name |-> "CL",
     systems |-> systems, attributes |-> attributes, checklists |-> checklists]

Attr(name, value) == [name |-> name, value |-> value]

\* the texts of a handover date: date only, with time and 'Z', with time
\* and offset (all three of the day Handover), and two that are no ISO
\* timestamps
DateOnly == Handover

WithZ == isoformat(Handover) \o "Z"

WithOffset == isoformat(Handover) \o "+00:00"

Malformed == {"TBD", "09/01/2024"}

\* str.lower() on the attribute names of the model
Lower(s) == IF s = "Handover Date" THEN "handover date" ELSE s

\* date_str.replace("Z", "+00:00") on the texts of the model
ReplaceZ(s) == IF s = WithZ THEN WithOffset ELSE s

\* datetime.fromisoformat(s) does not raise ValueError
IsIsoformat(s) == s \in {DateOnly, isoformat(Handover), WithOffset}

\* datetime.fromisoformat(s).replace(tzinfo=timezone.utc), for s it accepts
fromisoformat(s) == Handover

\* Python's truth value of a string or None
Truthy(v) == v # None /\ v # ""

\* the try statement with the text kept when it cannot be parsed
ToHandover_KeepText(date_str) ==
    IF IsIsoformat(ReplaceZ(date_str)) THEN fromisoformat(ReplaceZ(date_str))
    ELSE date_str

\* the try statement of lines 347-351: the parsed date, None on ValueError
ToHandover(date_str) ==
    IF IsIsoformat(ReplaceZ(date_str)) THEN fromisoformat(ReplaceZ(date_str))
    ELSE None

\* the loop over attributes: handover_date is taken from the first
\* 'handover date' attribute with a value (break), None without one
RECURSIVE HandoverOf(_)
HandoverOf(attributes) ==
    IF attributes = <<>> THEN None
    ELSE LET attr == Head(attributes)
         IN IF Lower(attr.name) = "handover date" /\ Truthy(attr.value)
            THEN ToHandover(attr.value)
            ELSE HandoverOf(Tail(attributes))

\* the body of the loop of process_equipment_data: equipment
ProcessRecord(record, now) ==
    LET from_systems == IF record.systems = <<>> THEN None
                        ELSE Last(record.systems).system_id
        system_id == IF Truthy(from_systems) THEN from_systems ELSE record.system_id
        checklist_id == IF record.checklists = <<>> THEN None
                        ELSE Last(record.checklists).checklist_id
        checklist_name == IF record.checklists = <<>> THEN record.checklist_name
                          ELSE Last(record.checklists).name
    IN [system_id |-> system_id, project_id |-> record.project_id, name |-> record.name,
        description |-> record.description, building_id |-> record.building_id,
        building |-> record.building, discipline_id |-> record.discipline_id,
        discipline |-> record.discipline, timeUpdated |-> now,
        checklist_id |-> checklist_id, checklist_name |-> checklist_name,
        handover_date |-> HandoverOf(record.attributes)]

\* the raw records a page is made of
RawRecords ==
    {Raw("S1", <<>>, <<>>, <<>>),
     Raw(None, <<>>, <<Attr("Status", "open")>>, <<>>),
     Raw("S1", <<>>, <<Attr("Handover Date", DateOnly)>>, <<>>),
     Raw("S1", <<[system_id |-> "S2"]>>, <<Attr("handover date", WithZ)>>,
         <<[checklist_id |-> "C1", name |-> "CL2"]>>),
     Raw("S1", <<>>, <<Attr("Handover Date", "TBD")>>, <<>>),
     Raw(None, <<[system_id |-> "S1"], [system_id |-> "S2"]>>,
         <<Attr("Status", "open"), Attr("Handover Date", ""),
           Attr("handover date", "09/01/2024"), Attr("Handover Date", DateOnly)>>,
         <<[checklist_id |-> "C1", name |-> "CL2"]>>),
     Raw("S2", <<>>, <<Attr("Handover Date", None), Attr("Handover Date", WithOffset)>>,
         <<>>)}

RawPages == SeqsUpTo(RawRecords, MaxRaw)

InitProcess ==
    /\ StoreIdle
    /\ RunIdle
    /\ page_data \in RawPages
    /\ raw_done = 0
    /\ processed_data = <<>>

\* one iteration of `for record in data`; the function returns
\* processed_data when the loop has gone through the page
Process_Record ==
    /\ raw_done < Len(page_data)
    /\ processed_data' = Append(processed_data, ProcessRecord(page_data[raw_done + 1], Now(run)))
    /\ raw_done' = raw_done + 1
    /\ UNCHANGED page_data
    /\ UNCHANGED <<storevars, runvars>>

NextProcess == Process_Record

SpecProcess == InitProcess /\ [][NextProcess]_vars

\* the 'handover date' attributes of a raw record that have a value
Dated(record) ==
    {k \in DOMAIN record.attributes :
        /\ record.attributes[k].name \in {"Handover Date", "handover date"}
        /\ record.attributes[k].value \notin {None, ""}}

\* the value of the first of them
FirstDate(record) ==
    record.attributes[CHOOSE k \in Dated(record) : \A l \in Dated(record) : k <= l].value

\* C20: process_equipment_data emits one canonical record per raw record,
\* in order, through the whole page; a record whose handover date cannot
\* be parsed as a timestamp is emitted with handover_date None, and its
\* other fields are what they are for any record: the eight copied fields,
\* the system_id of the last of 'systems' (the record's own without one),
\* the id and name of the last of 'checklists', the fetch time.
C20_HandoverParseFailure ==
    /\ Len(processed_data) = raw_done
    /\ raw_done <= Len(page_data)
    /\ \A i \in DOMAIN processed_data :
          LET record == page_data[i]
              equipment == processed_data[i]
          IN /\ (Dated(record) # {} /\ FirstDate(record) \in Malformed)
                   => equipment.handover_date = None
             /\ (Dated(record) # {} /\ FirstDate(record) \notin Malformed)
                   => equipment.handover_date = Handover
             /\ Dated(record) = {} => equipment.handover_date = None
             /\ \A key \in {"project_id", "name", "description", "building_id",
                            "building", "discipline_id", "discipline"} :
                   equipment[key] = record[key]
             /\ equipment.system_id =
                   IF record.systems # <<>> THEN record.systems[Len(record.systems)].system_id
                   ELSE record.system_id
             /\ equipment.checklist_id =
                   IF record.checklists # <<>> THEN "C1" ELSE None
             /\ equipment.checklist_name =
                   IF record.checklists # <<>> THEN "CL2" ELSE record.checklist_name
             /\ equipment.timeUpdated = Now(run)

C20_Witness ==
    /\ raw_done = 2 /\ Len(page_data) = 2
    /\ Dated(page_data[1]) # {} /\ FirstDate(page_data[1]) = "09/01/2024"
    /\ Len(page_data[1].attributes) = 4
    /\ processed_data[1].handover_date = None
    /\ processed_data[1].system_id = "S2"
    /\ processed_data[1].checklist_id = "C1"
    /\ processed_data[2].handover_date = Handover

====
